---- MODULE Spec2Model ----
(***************************************************************************)
(* Model of app/main.py: a FastAPI to-do service that keeps its tasks in   *)
(* a module-level dict (_todos) and issues ids from itertools.count(1).    *)
(*                                                                         *)
(* The route functions are plain `def` functions, so FastAPI runs each     *)
(* request on a worker thread of its thread pool: several handlers run at  *)
(* once and the interpreter may switch threads between two statements of   *)
(* a handler.  No handler takes a lock.  Each action below is one          *)
(* indivisible piece of a handler:                                         *)
(*   - a call into a C-implemented builtin (next() on itertools.count,     *)
(*     `in` / [] / []= / del on a dict with int keys) is one step;         *)
(*   - the membership test of a handler and the dict access that follows   *)
(*     it are two steps, and other threads may run in between.             *)
(* Request-body validation (pydantic, TodoIn) runs before the handler and  *)
(* touches no shared state, so it is part of the handler's first step.     *)
(***************************************************************************)
EXTENDS Integers, Sequences, FiniteSets, TLC

\* ---------------------------------------------------------------- bounds
NThreads == 2       \* worker threads serving requests at the same time
MaxId == 2          \* ids the counter may issue, and ids requests name
MaxDeletes == 2     \* deletes that may pass their membership test

Threads == 1..NThreads
IdInputs == 1..MaxId

\* ------------------------------------------------------------ data model
Null == "null"          \* JSON null / Python None
Omitted == "omitted"    \* the field is not in the request body

NotAString == "not-a-string"   \* a JSON array or object where a string is due

\* Raw JSON request bodies a client sends to POST /todos and PUT /todos/{id}.
RawBodies ==
  { [title |-> "a", description |-> Omitted],
    [title |-> "b", description |-> "x"],
    [title |-> "", description |-> Omitted],
    [title |-> Omitted, description |-> "x"],
    [title |-> NotAString, description |-> Omitted] }

\* TodoIn: `title: str` is required, `description: Optional[str] = None`.
\* The annotation `str` sets no minimum length: the empty string is a str.
ValidTodoIn(raw) == raw.title \notin {Omitted, NotAString}

\* Construction of the TodoIn object from a valid body: an omitted
\* description takes the default None.
ParseTodoIn(raw) ==
  [title |-> raw.title,
   description |-> IF raw.description = Omitted THEN Null ELSE raw.description]

\* TodoOut(id=todo_id, **todo.dict())
TodoOut(i, t) == [id |-> i, title |-> t.title, description |-> t.description]

\* ------------------------------------------------------- dict operations
\* _todos is a Python dict: a mapping that keeps insertion order.  It is
\* modelled as the sequence of its live entries, oldest insertion first.
Has(d, k) == \E n \in 1..Len(d) : d[n].key = k

IndexOf(d, k) == CHOOSE n \in 1..Len(d) : d[n].key = k

GetItem(d, k) == d[IndexOf(d, k)].val

\* A faulty variant of SetItem: dict.setdefault, which keeps the value of a key that
\* is present.
SetDefault(d, k, v) ==
  IF Has(d, k) THEN d ELSE Append(d, [key |-> k, val |-> v])

\* d[k] = v : overwrites in place when k is present, appends otherwise.
SetItem(d, k, v) ==
  IF Has(d, k)
  THEN [d EXCEPT ![IndexOf(d, k)] = [key |-> k, val |-> v]]
  ELSE Append(d, [key |-> k, val |-> v])

\* A faulty variant of DelItem: d.popitem(), which removes the entry inserted
\* last whatever its key.
DelLast(d, k) == SubSeq(d, 1, Len(d) - 1)

\* del d[k], for k present.
DelItem(d, k) == SelectSeq(d, LAMBDA e : e.key # k)

\* A faulty variant of Advance: a counter that is read but never advanced.
AdvanceStuck(c) == c

\* A faulty variant of Advance: a counter that steps by two.
AdvanceTwo(c) == c + 2

\* next(_id_counter): the value after the one just returned.
Advance(c) == c + 1

\* ----------------------------------------------------------------- state
VARIABLES
  todos,        \* _todos
  id_counter,   \* the value the next call of next(_id_counter) returns
  pc,           \* pc[t]: where worker thread t is in its handler
  todo_id,      \* todo_id[t]: the handler's local todo_id (0: none)
  todo,         \* todo[t]: the handler's local TodoIn
  submitted,    \* submitted[t]: the raw body of the request t is serving
  iter,         \* iter[t]: the dict iterator of list_todos' comprehension
  last,         \* the HTTP response the step just taken sent (none: the
                \*          step ended no request)
  issued,       \* history: ids issued by the counter, in order, each with
                \*          the set of ids deleted before it was issued
  deleted,      \* history: ids whose DELETE was answered 204
  nCreated,     \* history: number of creates that stored their task
  created,      \* history: the ids of the tasks created, in the order in
                \*          which their creates stored them
  nDeleted,     \* history: number of deletes answered 204
  disturbed,    \* history: threads whose running list_todos has seen
                \*          another request change the mapping
  written       \* history: per id, the raw body of the request that stored
                \*          its content last and whether it was a create or
                \*          an update (none once the id is deleted)

vars == <<todos, id_counter, pc, todo_id, todo, submitted, iter, last,
          issued, deleted, nCreated, created, nDeleted, disturbed, written>>

NoTodo == [title |-> Null, description |-> Null]
NoBody == [title |-> Omitted, description |-> Omitted]
NoIter == [pos |-> 0, used |-> 0, acc |-> <<>>]
NoWrite == [by |-> "none", raw |-> NoBody]

\* A response: the status code, the detail of an error, and the tasks of
\* the body (one task for create/get/update, all of them for list).
Response(op, i, status, detail, body) ==
  [op |-> op, todo_id |-> i, status |-> status, detail |-> detail, body |-> body]

NoResponse == Response("none", 0, 0, "", <<>>)

NotFound(op, i) == Response(op, i, 404, "Todo not found", <<>>)

\* An exception no handler catches: the framework answers 500.
ServerError(op, i, exc) == Response(op, i, 500, exc, <<>>)

Init ==
  /\ todos = <<>>
  /\ id_counter = 1
  /\ pc = [t \in Threads |-> "idle"]
  /\ todo_id = [t \in Threads |-> 0]
  /\ todo = [t \in Threads |-> NoTodo]
  /\ submitted = [t \in Threads |-> NoBody]
  /\ iter = [t \in Threads |-> NoIter]
  /\ last = NoResponse
  /\ issued = <<>>
  /\ deleted = {}
  /\ nCreated = 0
  /\ created = <<>>
  /\ nDeleted = 0
  /\ disturbed = {}
  /\ written = [i \in IdInputs |-> NoWrite]

\* The handler of thread t returns or raises: its locals are gone.
Finish(t) ==
  /\ pc' = [pc EXCEPT ![t] = "idle"]
  /\ todo_id' = [todo_id EXCEPT ![t] = 0]
  /\ todo' = [todo EXCEPT ![t] = NoTodo]
  /\ submitted' = [submitted EXCEPT ![t] = NoBody]
  /\ iter' = [iter EXCEPT ![t] = NoIter]

Locals == <<pc, todo_id, todo, submitted, iter>>

History == <<issued, deleted, nCreated, created, nDeleted, disturbed, written>>

\* The mapping changes: every list_todos that is running has seen it.
Disturb == disturbed' = disturbed \cup {u \in Threads : pc[u] = "list_iter"}

\* ------------------------------------------------------------ GET /
root(t) ==
  /\ pc[t] = "idle"
  /\ last' = Response("root", 0, 200, "", <<>>)
  /\ UNCHANGED <<todos, id_counter, Locals, History>>

\* A faulty variant of create_todo_invalid: the id is taken from the
\* counter before the body is validated, so a rejected create consumes it.
create_todo_invalid_consumes(t, raw) ==
  /\ pc[t] = "idle"
  /\ ~ValidTodoIn(raw)
  /\ id_counter <= MaxId
  /\ id_counter' = Advance(id_counter)
  /\ last' = Response("create", 0, 422, "title", <<>>)
  /\ UNCHANGED <<todos, Locals, History>>

\* ------------------------------------------------------- POST /todos
\* An invalid body is answered 422 before create_todo is called.
create_todo_invalid(t, raw) ==
  /\ pc[t] = "idle"
  /\ ~ValidTodoIn(raw)
  /\ last' = Response("create", 0, 422, "title", <<>>)
  /\ UNCHANGED <<todos, id_counter, Locals, History>>

\* A faulty variant of create_todo_next: the id is taken from the size of the mapping
\* (todo_id = len(_todos) + 1), so the id of a deleted task is handed out
\* again.
create_todo_next_len(t, raw) ==
  /\ pc[t] = "idle"
  /\ ValidTodoIn(raw)
  /\ id_counter <= MaxId
  /\ todo_id' = [todo_id EXCEPT ![t] = Len(todos) + 1]
  /\ id_counter' = Advance(id_counter)
  /\ todo' = [todo EXCEPT ![t] = ParseTodoIn(raw)]
  /\ submitted' = [submitted EXCEPT ![t] = raw]
  /\ pc' = [pc EXCEPT ![t] = "create_store"]
  /\ issued' = Append(issued, [id |-> Len(todos) + 1, deletedBefore |-> deleted])
  /\ last' = NoResponse
  /\ UNCHANGED <<todos, iter, deleted, nCreated, created, nDeleted, disturbed, written>>

\* A faulty variant of create_todo_next: a counter read and advanced in two steps
\* (todo_id = counter; counter = todo_id + 1), whose advance is lost when
\* another create is between the two.
create_todo_next_lost(t, raw) ==
  /\ pc[t] = "idle"
  /\ ValidTodoIn(raw)
  /\ id_counter <= MaxId
  /\ todo_id' = [todo_id EXCEPT ![t] = id_counter]
  /\ id_counter' = IF \E u \in Threads \ {t} : pc[u] = "create_store"
                   THEN id_counter
                   ELSE Advance(id_counter)
  /\ todo' = [todo EXCEPT ![t] = ParseTodoIn(raw)]
  /\ submitted' = [submitted EXCEPT ![t] = raw]
  /\ pc' = [pc EXCEPT ![t] = "create_store"]
  /\ issued' = Append(issued, [id |-> id_counter, deletedBefore |-> deleted])
  /\ last' = NoResponse
  /\ UNCHANGED <<todos, iter, deleted, nCreated, created, nDeleted, disturbed, written>>

\* todo_id = next(_id_counter)
create_todo_next(t, raw) ==
  /\ pc[t] = "idle"
  /\ ValidTodoIn(raw)
  /\ id_counter <= MaxId
  /\ todo_id' = [todo_id EXCEPT ![t] = id_counter]
  /\ id_counter' = Advance(id_counter)
  /\ todo' = [todo EXCEPT ![t] = ParseTodoIn(raw)]
  /\ submitted' = [submitted EXCEPT ![t] = raw]
  /\ pc' = [pc EXCEPT ![t] = "create_store"]
  /\ issued' = Append(issued, [id |-> id_counter, deletedBefore |-> deleted])
  /\ last' = NoResponse
  /\ UNCHANGED <<todos, iter, deleted, nCreated, created, nDeleted, disturbed, written>>

\* _todos[todo_id] = todo; return TodoOut(id=todo_id, **todo.dict())
create_todo_store(t) ==
  /\ pc[t] = "create_store"
  /\ todos' = SetItem(todos, todo_id[t], todo[t])
  /\ last' = Response("create", todo_id[t], 201, "", <<TodoOut(todo_id[t], todo[t])>>)
  /\ nCreated' = nCreated + 1
  /\ created' = Append(created, todo_id[t])
  /\ written' = [written EXCEPT ![todo_id[t]] = [by |-> "create", raw |-> submitted[t]]]
  /\ Disturb
  /\ Finish(t)
  /\ UNCHANGED <<id_counter, issued, deleted, nDeleted>>

\* -------------------------------------------------------- GET /todos
\* [TodoOut(id=i, **t.dict()) for i, t in _todos.items()]
\* The comprehension calls into Python code for every item, so other
\* threads run between two items.  iter[t] is the dict iterator: `used` is
\* the size of the dict when the iterator was made, `pos` the number of
\* live entries before its cursor, `acc` the list built so far.
list_todos_start(t) ==
  /\ pc[t] = "idle"
  /\ pc' = [pc EXCEPT ![t] = "list_iter"]
  /\ iter' = [iter EXCEPT ![t] = [pos |-> 0, used |-> Len(todos), acc |-> <<>>]]
  /\ last' = NoResponse
  /\ UNCHANGED <<todos, id_counter, todo_id, todo, submitted, History>>

\* One __next__ of the dict iterator.  It raises RuntimeError when the
\* dict's size differs from `used`, and when it finds an entry after it has
\* already yielded `used` items; it stops at the end of the entries.
list_todos_next(t) ==
  /\ pc[t] = "list_iter"
  /\ IF Len(todos) # iter[t].used
     THEN /\ last' = ServerError("list", 0, "RuntimeError")
          /\ disturbed' = disturbed \ {t}
          /\ Finish(t)
     ELSE IF iter[t].pos >= Len(todos)
     THEN /\ last' = Response("list", 0, 200, "", iter[t].acc)
          /\ disturbed' = disturbed \ {t}
          /\ Finish(t)
     ELSE IF Len(iter[t].acc) >= iter[t].used
     THEN /\ last' = ServerError("list", 0, "RuntimeError")
          /\ disturbed' = disturbed \ {t}
          /\ Finish(t)
     ELSE /\ iter' = [iter EXCEPT ![t] =
                 [pos |-> @.pos + 1, used |-> @.used,
                  acc |-> Append(@.acc, TodoOut(todos[@.pos + 1].key,
                                                todos[@.pos + 1].val))]]
          /\ last' = NoResponse
          /\ UNCHANGED <<pc, todo_id, todo, submitted, disturbed>>
  /\ UNCHANGED <<todos, id_counter, issued, deleted, nCreated, created, nDeleted, written>>

\* ------------------------------------------------ GET /todos/{todo_id}
\* if todo_id not in _todos: raise HTTPException(404, "Todo not found")
get_todo(t, i) ==
  /\ pc[t] = "idle"
  /\ IF ~Has(todos, i)
     THEN /\ last' = NotFound("get", i)
          /\ UNCHANGED Locals
     ELSE /\ pc' = [pc EXCEPT ![t] = "get_read"]
          /\ todo_id' = [todo_id EXCEPT ![t] = i]
          /\ last' = NoResponse
          /\ UNCHANGED <<todo, submitted, iter>>
  /\ UNCHANGED <<todos, id_counter, History>>

\* A faulty variant of get_todo_read: the task is read with
\* _todos.pop(todo_id), which takes it out of the mapping.
get_todo_read_pop(t) ==
  /\ pc[t] = "get_read"
  /\ last' = IF Has(todos, todo_id[t])
             THEN Response("get", todo_id[t], 200, "",
                           <<TodoOut(todo_id[t], GetItem(todos, todo_id[t]))>>)
             ELSE ServerError("get", todo_id[t], "KeyError")
  /\ todos' = DelItem(todos, todo_id[t])
  /\ Finish(t)
  /\ UNCHANGED <<id_counter, History>>

\* return TodoOut(id=todo_id, **_todos[todo_id].dict())
\* _todos[todo_id] raises KeyError when the key is gone by now.
get_todo_read(t) ==
  /\ pc[t] = "get_read"
  /\ last' = IF Has(todos, todo_id[t])
             THEN Response("get", todo_id[t], 200, "",
                           <<TodoOut(todo_id[t], GetItem(todos, todo_id[t]))>>)
             ELSE ServerError("get", todo_id[t], "KeyError")
  /\ Finish(t)
  /\ UNCHANGED <<todos, id_counter, History>>

\* ------------------------------------------------ PUT /todos/{todo_id}
\* A faulty variant of update_todo_invalid: the handler takes the raw body,
\* looks the id up first and validates the body afterwards.
update_todo_invalid_after_lookup(t, i, raw) ==
  /\ pc[t] = "idle"
  /\ ~ValidTodoIn(raw)
  /\ last' = IF Has(todos, i)
             THEN Response("update", i, 422, "title", <<>>)
             ELSE NotFound("update", i)
  /\ UNCHANGED <<todos, id_counter, Locals, History>>

\* An invalid body is answered 422 before update_todo is called.
update_todo_invalid(t, i, raw) ==
  /\ pc[t] = "idle"
  /\ ~ValidTodoIn(raw)
  /\ last' = Response("update", i, 422, "title", <<>>)
  /\ UNCHANGED <<todos, id_counter, Locals, History>>

\* A faulty variant of update_todo: an upsert, which does not test membership.
update_todo_upsert(t, i, raw) ==
  /\ pc[t] = "idle"
  /\ ValidTodoIn(raw)
  /\ pc' = [pc EXCEPT ![t] = "update_store"]
  /\ todo_id' = [todo_id EXCEPT ![t] = i]
  /\ todo' = [todo EXCEPT ![t] = ParseTodoIn(raw)]
  /\ submitted' = [submitted EXCEPT ![t] = raw]
  /\ last' = NoResponse
  /\ UNCHANGED iter
  /\ UNCHANGED <<todos, id_counter, History>>

\* if todo_id not in _todos: raise HTTPException(404, "Todo not found")
update_todo(t, i, raw) ==
  /\ pc[t] = "idle"
  /\ ValidTodoIn(raw)
  /\ IF ~Has(todos, i)
     THEN /\ last' = NotFound("update", i)
          /\ UNCHANGED Locals
     ELSE /\ pc' = [pc EXCEPT ![t] = "update_store"]
          /\ todo_id' = [todo_id EXCEPT ![t] = i]
          /\ todo' = [todo EXCEPT ![t] = ParseTodoIn(raw)]
          /\ submitted' = [submitted EXCEPT ![t] = raw]
          /\ last' = NoResponse
          /\ UNCHANGED iter
  /\ UNCHANGED <<todos, id_counter, History>>

\* _todos[todo_id] = todo; return TodoOut(id=todo_id, **todo.dict())
update_todo_store(t) ==
  /\ pc[t] = "update_store"
  /\ todos' = SetItem(todos, todo_id[t], todo[t])
  /\ last' = Response("update", todo_id[t], 200, "", <<TodoOut(todo_id[t], todo[t])>>)
  /\ written' = [written EXCEPT ![todo_id[t]] = [by |-> "update", raw |-> submitted[t]]]
  /\ Disturb
  /\ Finish(t)
  /\ UNCHANGED <<id_counter, issued, deleted, nCreated, created, nDeleted>>

\* --------------------------------------------- DELETE /todos/{todo_id}
\* if todo_id not in _todos: raise HTTPException(404, "Todo not found")
delete_todo(t, i) ==
  /\ pc[t] = "idle"
  /\ IF ~Has(todos, i)
     THEN /\ last' = NotFound("delete", i)
          /\ UNCHANGED Locals
     ELSE /\ nDeleted < MaxDeletes
          /\ pc' = [pc EXCEPT ![t] = "delete_del"]
          /\ todo_id' = [todo_id EXCEPT ![t] = i]
          /\ last' = NoResponse
          /\ UNCHANGED <<todo, submitted, iter>>
  /\ UNCHANGED <<todos, id_counter, History>>

\* A deleted entry leaves a hole in the dict's entry table, so an iterator
\* whose cursor is past it keeps pointing at the same following entry: with
\* the holes left out of `todos`, its count of live entries before the
\* cursor drops by one.
IterAfterDel(it, n) == IF it.pos >= n THEN [it EXCEPT !.pos = @ - 1] ELSE it

\* del _todos[todo_id]   (KeyError when the key is gone by now)
delete_todo_del(t) ==
  /\ pc[t] = "delete_del"
  /\ pc' = [pc EXCEPT ![t] = "idle"]
  /\ todo_id' = [todo_id EXCEPT ![t] = 0]
  /\ UNCHANGED <<todo, submitted>>
  /\ IF Has(todos, todo_id[t])
     THEN /\ todos' = DelItem(todos, todo_id[t])
          /\ iter' = [u \in Threads |->
                        IF pc[u] = "list_iter"
                        THEN IterAfterDel(iter[u], IndexOf(todos, todo_id[t]))
                        ELSE iter[u]]
          /\ last' = Response("delete", todo_id[t], 204, "", <<>>)
          /\ deleted' = deleted \cup {todo_id[t]}
          /\ nDeleted' = nDeleted + 1
          /\ Disturb
          /\ written' = [written EXCEPT ![todo_id[t]] = NoWrite]
     ELSE /\ last' = ServerError("delete", todo_id[t], "KeyError")
          /\ UNCHANGED <<todos, iter, deleted, nDeleted, disturbed, written>>
  /\ UNCHANGED <<id_counter, issued, nCreated, created>>

\* ------------------------------------------------------- specification
Next ==
  \E t \in Threads :
    \/ root(t)
    \/ \E raw \in RawBodies : create_todo_invalid(t, raw)
    \/ \E raw \in RawBodies : create_todo_next(t, raw)
    \/ create_todo_store(t)
    \/ list_todos_start(t)
    \/ list_todos_next(t)
    \/ \E i \in IdInputs : get_todo(t, i)
    \/ get_todo_read(t)
    \/ \E i \in IdInputs, raw \in RawBodies : update_todo_invalid(t, i, raw)
    \/ \E i \in IdInputs, raw \in RawBodies : update_todo(t, i, raw)
    \/ update_todo_store(t)
    \/ \E i \in IdInputs : delete_todo(t, i)
    \/ delete_todo_del(t)

Spec == Init /\ [][Next]_vars

\* =============================================================== claims

\* A task as a client must see it for the raw body it submitted: the
\* submitted title and description, the description null when omitted.
Expected(i, raw) ==
  [id |-> i, title |-> raw.title,
   description |-> IF raw.description = Omitted THEN Null ELSE raw.description]

\* C1: the ids returned by successful creates are pairwise distinct and
\* strictly increasing in the order in which the creates were issued, and
\* every 201 response carries an id the counter issued.
C1_IdsStrictlyIncreasing ==
  /\ \A m, n \in 1..Len(issued) : m < n => issued[m].id < issued[n].id
  /\ (last.op = "create" /\ last.status = 201) =>
       \E m \in 1..Len(issued) : issued[m].id = last.body[1].id

\* A second create returns id 2 after id 1 was created and deleted.
C1_Witness ==
  /\ last.op = "create"
  /\ last.status = 201
  /\ last.body[1].id = 2
  /\ 1 \in deleted

\* C2: every id in the mapping was issued by the counter (it is at least 1
\* and below the counter's next value), and no create is ever issued an id
\* that was deleted before.
C2_IdsIssuedNeverReused ==
  /\ \A n \in 1..Len(todos) :
       /\ todos[n].key >= 1
       /\ todos[n].key < id_counter
       /\ \E m \in 1..Len(issued) : issued[m].id = todos[n].key
  /\ \A m \in 1..Len(issued) : issued[m].id \notin issued[m].deletedBefore

\* A task created after another one was deleted is in the mapping.
C2_Witness ==
  \E m \in 1..Len(issued) :
    /\ issued[m].deletedBefore # {}
    /\ Has(todos, issued[m].id)

C4_DeletionPermanent ==
  [][\A t \in Threads, i \in IdInputs :
       i \in deleted =>
         /\ get_todo(t, i) => last' = NotFound("get", i)
         /\ delete_todo(t, i) => last' = NotFound("delete", i)
         /\ \A raw \in RawBodies :
              update_todo(t, i, raw) => last' = NotFound("update", i)]_vars

\* C5: the mapping holds for every id what the last create or update of it
\* submitted, and a get that answers 200 returns exactly that, with the id.
C5_StoreHoldsWritten ==
  \A i \in IdInputs :
    written[i].by # "none" =>
      /\ Has(todos, i)
      /\ TodoOut(i, GetItem(todos, i)) = Expected(i, written[i].raw)

C5_GetReturnsWritten ==
  [][\A t \in Threads :
       (get_todo_read(t) /\ last'.status = 200) =>
         last'.body = <<Expected(todo_id[t], written[todo_id[t]].raw)>>]_vars

C5_GetReturnsLastWritten == []C5_StoreHoldsWritten /\ C5_GetReturnsWritten

\* A get returned the content an update wrote, which differs from the
\* content the task was created with.
C5_Witness ==
  /\ last.op = "get"
  /\ last.status = 200
  /\ written[last.todo_id].by = "update"
  /\ last.body = <<Expected(last.todo_id, written[last.todo_id].raw)>>

\* C6: the number of tasks list returns equals the number of successful
\* creates minus the number of successful deletes.
C6_ListLength == Len(todos) = nCreated - nDeleted

\* C7: a delete of an id that was deleted before is answered 404 and
\* changes neither the mapping nor the counter.
C7_DeleteDeletedIs404 ==
  [][\A t \in Threads, i \in IdInputs :
       (i \in deleted /\ delete_todo(t, i)) =>
         /\ last' = NotFound("delete", i)
         /\ todos' = todos
         /\ id_counter' = id_counter]_vars

\* C8: an update that runs concurrently with a delete of the same id never
\* puts the deleted task back: no deleted id is in the mapping.
C8_NoReinsertAfterDelete == \A i \in deleted : ~Has(todos, i)

\* C9: creates that run in parallel hold pairwise distinct ids, none of
\* which is in the mapping yet, and the store step of each adds its own
\* entry and leaves every other entry as it was.
C9_DistinctIds ==
  \A t \in Threads :
    pc[t] = "create_store" =>
      /\ ~Has(todos, todo_id[t])
      /\ \A u \in Threads \ {t} :
           pc[u] = "create_store" => todo_id[u] # todo_id[t]

C9_OwnEntry ==
  [][\A t \in Threads :
       create_todo_store(t) =>
         /\ todos' = Append(todos, [key |-> todo_id[t], val |-> todo[t]])
         /\ last'.body = <<Expected(todo_id[t], submitted[t])>>]_vars

C9_ParallelCreates == []C9_DistinctIds /\ C9_OwnEntry

\* Two creates overlap: the one issued id 1 has not stored yet while the
\* one issued id 2 has.
C9_Witness ==
  \E t \in Threads :
    /\ pc[t] = "create_store"
    /\ todo_id[t] = 1
    /\ Has(todos, 2)

\* C10: every request ends in success, in 404 with detail "Todo not found",
\* or in 422; no request ends in any other error.
C10_OnlyThreeOutcomes ==
  /\ last.status \in {0, 200, 201, 204, 404, 422}
  /\ last.status = 404 => last.detail = "Todo not found"

\* C11: every task in the mapping has a non-empty title (a create or an
\* update with the empty string as title stores nothing).
C11_TitlesNonEmpty == \A n \in 1..Len(todos) : todos[n].val.title # ""

\* A body whose title is missing or is not a string.
Malformed(raw) == raw.title \in {Omitted, NotAString}

\* C12: a create or update whose title is missing or of the wrong type is
\* answered 422 at once and changes neither the mapping nor the counter,
\* and the counter moves only in the first step of a create whose body was
\* accepted, by which it gives that create its id.
C12_RejectedLeavesStore ==
  [][/\ \A t \in Threads, raw \in RawBodies :
          (Malformed(raw) /\ (create_todo_invalid(t, raw) \/ create_todo_next(t, raw))) =>
            /\ last' = Response("create", 0, 422, "title", <<>>)
            /\ pc'[t] = "idle"
            /\ todos' = todos
            /\ id_counter' = id_counter
     /\ \A t \in Threads, i \in IdInputs, raw \in RawBodies :
          (Malformed(raw) /\ (update_todo_invalid(t, i, raw) \/ update_todo(t, i, raw))) =>
            /\ last' = Response("update", i, 422, "title", <<>>)
            /\ pc'[t] = "idle"
            /\ todos' = todos
            /\ id_counter' = id_counter
     /\ id_counter' # id_counter =>
          \E t \in Threads :
            /\ pc[t] = "idle"
            /\ pc'[t] = "create_store"
            /\ todo_id'[t] = id_counter
            /\ ~Malformed(submitted'[t])]_vars

\* A create without a title was answered 422 after one task was stored; the
\* counter still stands at 2.
C12_Witness ==
  /\ last.op = "create"
  /\ last.status = 422
  /\ Len(todos) = 1
  /\ id_counter = 2

\* C13: the counter starts at 1 and moves by one per create: the k-th
\* create to take its id from the counter is given id k, the counter then
\* stands at the number of ids given plus one, and a 201 response carries
\* the id its create was given.
C13_KthCreateGetsK ==
  /\ \A k \in 1..Len(issued) : issued[k].id = k
  /\ id_counter = Len(issued) + 1
  /\ (last.op = "create" /\ last.status = 201) =>
       /\ last.body[1].id = last.todo_id
       /\ last.todo_id \in 1..Len(issued)

\* The second create returned id 2 after the first task was updated.
C13_Witness ==
  /\ last.op = "create"
  /\ last.status = 201
  /\ last.body[1].id = 2
  /\ written[1].by = "update"

\* The keys of a mapping, in its order.
Keys(d) == [n \in 1..Len(d) |-> d[n].key]

\* The keys of a mapping other than k keep their relative order in e.
SameOrderWithout(d, e, k) ==
  \A m, n \in 1..Len(d) :
    (m < n /\ d[m].key # k /\ d[n].key # k) =>
      /\ Has(e, d[m].key)
      /\ Has(e, d[n].key)
      /\ IndexOf(e, d[m].key) < IndexOf(e, d[n].key)

\* C14: an update answered 200 overwrites the content of its id in place:
\* the ids of the mapping and their order, the content of every other
\* task, and the counter are unchanged.
C14_UpdateInPlace ==
  [][\A t \in Threads :
       update_todo_store(t) =>
         /\ Keys(todos') = Keys(todos)
         /\ \A n \in 1..Len(todos) :
              todos[n].key # todo_id[t] => todos'[n] = todos[n]
         /\ GetItem(todos', todo_id[t]) = todo[t]
         /\ id_counter' = id_counter]_vars

\* What list returns for a mapping: its tasks in the mapping's order.
ListOut(d) == [n \in 1..Len(d) |-> TodoOut(d[n].key, d[n].val)]

\* The create of task i stored it before the create of task j stored j.
CreatedBefore(i, j) ==
  \E m, n \in 1..Len(created) : m < n /\ created[m] = i /\ created[n] = j

\* C15: a list answered 200 returns its tasks, each once, in the order in
\* which they were created; when no request changed the mapping while it
\* ran, it returns exactly the tasks in the mapping; and an update or a
\* delete of one task leaves the relative order of the others as it was.
C15_ListInCreationOrder ==
  [][/\ \A t \in Threads :
          (list_todos_next(t) /\ last'.status = 200) =>
            /\ \A m, n \in 1..Len(last'.body) :
                 m < n => CreatedBefore(last'.body[m].id, last'.body[n].id)
            /\ t \notin disturbed => last'.body = ListOut(todos)
     /\ \A t \in Threads :
          (update_todo_store(t) \/ delete_todo_del(t)) =>
            SameOrderWithout(todos, todos', todo_id[t])]_vars

C17_ReadsLeaveStore ==
  [][\A t \in Threads :
       (\/ root(t)
        \/ list_todos_start(t)
        \/ list_todos_next(t)
        \/ \E i \in IdInputs : get_todo(t, i)
        \/ get_todo_read(t)) =>
         /\ todos' = todos
         /\ id_counter' = id_counter]_vars

\* A get returned a task, which is still in the mapping.
C17_Witness ==
  /\ last.op = "get"
  /\ last.status = 200
  /\ Has(todos, last.todo_id)

\* C18: an update whose body is invalid is answered 422 whether or not its
\* id is in the mapping, and changes neither the mapping nor the counter.
C18_InvalidUpdateIs422 ==
  [][\A t \in Threads, i \in IdInputs, raw \in RawBodies :
       (~ValidTodoIn(raw) /\ (update_todo_invalid(t, i, raw) \/ update_todo(t, i, raw))) =>
         /\ last' = Response("update", i, 422, "title", <<>>)
         /\ pc'[t] = "idle"
         /\ todos' = todos
         /\ id_counter' = id_counter]_vars

\* An update with an invalid body of an id that is not in the mapping was
\* answered 422.
C18_Witness ==
  /\ last.op = "update"
  /\ last.status = 422
  /\ ~Has(todos, last.todo_id)
  /\ Len(todos) > 0

====
